---- MODULE Spec2Model ----
(***************************************************************************)
(* Streamlit portfolio tracker: the holdings store (sqlite table stocks),  *)
(* the session copy of the portfolio and the script runs of the pages      *)
(* My_portfolio.py, pages/Dividends.py, pages/Risk.py and                  *)
(* pages/2_Portfolio_Analysis.py.                                          *)
(*                                                                         *)
(* Numbers.  A Python/numpy float is modelled as an exact rational or one  *)
(* of the IEEE specials: [k, n, d] with k in "fin" (the rational n/d in    *)
(* lowest terms, d > 0), "nan", "inf", "ninf".  Arithmetic follows IEEE:   *)
(* x/0 is an infinity, 0/0 and every operation on a NaN is NaN.            *)
(***************************************************************************)
EXTENDS Integers, Sequences, FiniteSets, TLC

(***************************************************************************)
(* Bounds of the model.                                                    *)
(***************************************************************************)
\* AUTOINCREMENT ids handed out per behaviour (so also the rows ever stored)
MaxId == 2
\* the same, where the dividend page is explored
MaxDividendId == 3
\* number of dates in a price history of the analysis pages
NDates == 3

(***************************************************************************)
(* Floats.                                                                 *)
(***************************************************************************)
RECURSIVE GCD(_, _)
GCD(a, b) == IF b = 0 THEN a ELSE GCD(b, a % b)

Abs(x) == IF x < 0 THEN -x ELSE x

NaN == [k |-> "nan", n |-> 0, d |-> 1]
PosInf == [k |-> "inf", n |-> 0, d |-> 1]
NegInf == [k |-> "ninf", n |-> 0, d |-> 1]

\* the rational n/d, d # 0, in lowest terms
Q(n, d) ==
    LET s == IF d < 0 THEN -1 ELSE 1
        g == GCD(Abs(n), Abs(d))
    IN  [k |-> "fin", n |-> (s * n) \div g, d |-> (s * d) \div g]

Zero == Q(0, 1)
Hundred == Q(100, 1)

IsFin(x) == x.k = "fin"
IsNaN(x) == x.k = "nan"
IsInf(x) == x.k \in {"inf", "ninf"}
\* sign of a non-NaN float: -1, 0, 1
Sign(x) ==
    CASE x.k = "inf" -> 1
      [] x.k = "ninf" -> -1
      [] OTHER -> IF x.n > 0 THEN 1 ELSE IF x.n < 0 THEN -1 ELSE 0
Signed(s) == IF s > 0 THEN PosInf ELSE NegInf

FNeg(x) ==
    CASE x.k = "fin" -> Q(-x.n, x.d)
      [] x.k = "inf" -> NegInf
      [] x.k = "ninf" -> PosInf
      [] OTHER -> NaN

FAdd(x, y) ==
    CASE IsNaN(x) \/ IsNaN(y) -> NaN
      [] IsFin(x) /\ IsFin(y) -> Q(x.n * y.d + y.n * x.d, x.d * y.d)
      [] IsInf(x) /\ IsInf(y) -> IF x.k = y.k THEN x ELSE NaN
      [] IsInf(x) -> x
      [] OTHER -> y

FSub(x, y) == FAdd(x, FNeg(y))

FMul(x, y) ==
    CASE IsNaN(x) \/ IsNaN(y) -> NaN
      [] IsFin(x) /\ IsFin(y) -> Q(x.n * y.n, x.d * y.d)
      [] Sign(x) = 0 \/ Sign(y) = 0 -> NaN
      [] OTHER -> Signed(Sign(x) * Sign(y))

\* IEEE division: no exception on a zero divisor
FDiv(x, y) ==
    CASE IsNaN(x) \/ IsNaN(y) -> NaN
      [] IsInf(x) /\ IsInf(y) -> NaN
      [] IsInf(x) -> Signed(Sign(x) * (IF Sign(y) < 0 THEN -1 ELSE 1))
      [] IsInf(y) -> Zero
      [] y.n = 0 -> IF x.n = 0 THEN NaN ELSE Signed(Sign(x))
      [] OTHER -> Q(x.n * y.d, x.d * y.n)

FLess(x, y) == IsFin(x) /\ IsFin(y) /\ x.n * y.d < y.n * x.d
\* x > 0 as Python evaluates it (False for NaN)
FPos(x) == x.k = "inf" \/ (IsFin(x) /\ x.n > 0)

\* f"{x:.2f}" parsed back by float(): x rounded to two decimals, ties to even
Round2(x) ==
    IF ~IsFin(x) THEN x
    ELSE LET m == x.n * 100
             q == m \div x.d
             r == m % x.d
             up == 2 * r > x.d \/ (2 * r = x.d /\ q % 2 = 1)
         IN  Q(IF up THEN q + 1 ELSE q, 100)

\* Series.sum(): NaN cells are skipped, the empty sum is 0
RECURSIVE SumSkipNa(_)
SumSkipNa(s) ==
    IF s = <<>> THEN Zero
    ELSE IF IsNaN(Head(s)) THEN SumSkipNa(Tail(s))
    ELSE FAdd(Head(s), SumSkipNa(Tail(s)))

\* Series.mean(): NaN cells are skipped, the mean of nothing is NaN
NotNa(s) == SelectSeq(s, LAMBDA x : ~IsNaN(x))
Mean(s) ==
    IF NotNa(s) = <<>> THEN NaN
    ELSE FDiv(SumSkipNa(s), Q(Len(NotNa(s)), 1))

Map(s, Op(_)) == [i \in 1..Len(s) |-> Op(s[i])]

(***************************************************************************)
(* State.                                                                  *)
(***************************************************************************)
VARIABLES
    columns,    \* columns of table stocks in portfolio.db; {} while no table
    stocks,     \* rows of table stocks, in rowid order
    nextId,     \* next AUTOINCREMENT id
    portfolio,  \* st.session_state.portfolio: [set, rows]
    view        \* what the last script run rendered

vars == <<columns, stocks, nextId, portfolio, view>>

(***************************************************************************)
(* Inputs of the forms and outcomes of the market-data provider.           *)
(***************************************************************************)
Tickers == {"AAA", "BBB"}
account_options == {"Webull", "Fidelity", "HSA"}

NoneV == [k |-> "none", n |-> 0, d |-> 1]
\* any exception of yf.Ticker(t).history(...) or .info, IndexError included
ProviderError == [k |-> "raise", n |-> 0, d |-> 1]
PriceValues == {Q(3, 1), Q(1004, 1000)}
\* what the latest-price lookup does for one ticker in one run
PriceOutcomes == {ProviderError} \cup PriceValues

\* The inputs a specification draws from: the latest-price outcomes of a
\* ticker, and the values typed into the add form (number_input with
\* min_value=0.01) and into the edit form (number_input without a minimum).
StoreInputs ==
    [ids |-> MaxId,
     prices |-> {Q(3, 1)},
     accounts |-> {"Webull", "HSA"},
     addShares |-> {Q(1, 1)}, addCost |-> {Q(1, 1)},
     editShares |-> {Q(0, 1), Q(2, 1)},
     editCost |-> {Q(0, 1), Q(2, 1)}]

ValuationInputs ==
    [ids |-> MaxId,
     prices |-> PriceOutcomes,
     accounts |-> {"Webull"},
     addShares |-> {Q(1, 1), Q(2, 1)}, addCost |-> {Q(1, 1)},
     editShares |-> {Q(0, 1), Q(2, 1)},
     editCost |-> {Q(0, 1), Q(2, 1)}]

(***************************************************************************)
(* The holdings store: My_portfolio.py.                                    *)
(***************************************************************************)
InitColumns == {"id", "ticker", "shares", "cost_basis"}
AllColumns == InitColumns \cup {"account"}

\* CREATE TABLE IF NOT EXISTS stocks (id, ticker, shares, cost_basis)
init_db(cols) == IF cols = {} THEN InitColumns ELSE cols

\* SELECT * FROM stocks
load_portfolio(rows) == [set |-> TRUE, rows |-> rows]

Unset == [set |-> FALSE, rows |-> <<>>]

\* INSERT INTO stocks (ticker, account, shares, cost_basis): an
\* OperationalError when the table has no such column
save_stock(cols, rows, nid, ticker, account, shares, cost_basis) ==
    IF {"ticker", "account", "shares", "cost_basis"} \subseteq cols
    THEN [raised |-> FALSE,
          stocks |-> Append(rows, [id |-> nid, ticker |-> ticker,
                                   account |-> account, shares |-> shares,
                                   cost_basis |-> cost_basis]),
          nextId |-> nid + 1]
    ELSE [raised |-> TRUE, stocks |-> rows, nextId |-> nid]

\* UPDATE ... WHERE id = ? when shares > 0, else DELETE ... WHERE id = ?
\* an UPDATE and a DELETE that leave out "WHERE id = ?"
update_stock_all_rows(cols, rows, id, account, shares, cost_basis) ==
    IF FPos(shares)
    THEN IF {"account", "shares", "cost_basis", "id"} \subseteq cols
         THEN [raised |-> FALSE,
               stocks |-> [i \in 1..Len(rows) |->
                             [rows[i] EXCEPT !.account = account,
                                             !.shares = shares,
                                             !.cost_basis = cost_basis]]]
         ELSE [raised |-> TRUE, stocks |-> rows]
    ELSE [raised |-> FALSE, stocks |-> <<>>]

update_stock(cols, rows, id, account, shares, cost_basis) ==
    IF FPos(shares)
    THEN IF {"account", "shares", "cost_basis", "id"} \subseteq cols
         THEN [raised |-> FALSE,
               stocks |-> [i \in 1..Len(rows) |->
                             IF rows[i].id = id
                             THEN [rows[i] EXCEPT !.account = account,
                                                  !.shares = shares,
                                                  !.cost_basis = cost_basis]
                             ELSE rows[i]]]
         ELSE [raised |-> TRUE, stocks |-> rows]
    ELSE [raised |-> FALSE,
          stocks |-> SelectSeq(rows, LAMBDA r : r.id # id)]

(***************************************************************************)
(* Valuation: My_portfolio.py main, lines 83-113.                          *)
(***************************************************************************)
\* try: history(period="1d").Close.iloc[0]
\* except IndexError: return None   except Exception: return None
get_current_price(quote, ticker) ==
    IF quote[ticker] = ProviderError THEN NoneV
    ELSE quote[ticker]

\* a None in a numeric column is NaN
AsFloat(x) == IF x.k = "none" THEN NaN ELSE x

Current_Price(quote, row) == AsFloat(get_current_price(quote, row.ticker))

\* a market value that counts a missing price as zero
Total_Value_missing_as_zero(quote, row) ==
    IF IsNaN(Current_Price(quote, row)) THEN Zero
    ELSE FMul(row.shares, Current_Price(quote, row))

\* display_df['Total Value'] = shares * Current Price
Total_Value(quote, row) == FMul(row.shares, Current_Price(quote, row))

\* total_portfolio_value = display_df['Total Value'].sum()
total_portfolio_value(rows, quote) ==
    SumSkipNa([i \in 1..Len(rows) |-> Total_Value(quote, rows[i])])

\* (Total Value / total_portfolio_value) * 100
Portfolio_Pct(value, total) == FMul(FDiv(value, total), Hundred)

CostOf(row) == FMul(row.cost_basis, row.shares)

\* Total Value - cost_basis * shares
Gain_Loss(value, row) == FSub(value, CostOf(row))

\* (Gain/Loss / (cost_basis * shares)) * 100
Gain_Loss_Pct(value, row) ==
    FMul(FDiv(Gain_Loss(value, row), CostOf(row)), Hundred)

DisplayRow(rows, quote, row) ==
    LET value == Total_Value(quote, row)
    IN  [id |-> row.id, ticker |-> row.ticker, account |-> row.account,
         shares |-> row.shares, cost_basis |-> row.cost_basis,
         Current_Price |-> Current_Price(quote, row),
         Total_Value |-> value,
         Portfolio_Pct |-> Portfolio_Pct(value, total_portfolio_value(rows, quote)),
         Gain_Loss |-> Gain_Loss(value, row),
         Gain_Loss_Pct |-> Gain_Loss_Pct(value, row)]

\* sort_values('Total Value', ascending=False): NaN last, equal keys keep
\* their order (tables this small are insertion-sorted)
ComesBefore(a, b) ==
    \/ ~IsNaN(a.Total_Value) /\ IsNaN(b.Total_Value)
    \/ FLess(b.Total_Value, a.Total_Value)

RECURSIVE InsertRow(_, _)
InsertRow(s, x) ==
    IF s = <<>> THEN <<x>>
    ELSE IF ComesBefore(x, Head(s)) THEN <<x>> \o s
    ELSE <<Head(s)>> \o InsertRow(Tail(s), x)

RECURSIVE sort_values(_)
sort_values(t) ==
    IF t = <<>> THEN <<>>
    ELSE InsertRow(sort_values(SubSeq(t, 1, Len(t) - 1)), t[Len(t)])

\* total_value: the formatted Total Value column parsed back and summed
total_value(table) ==
    SumSkipNa([i \in 1..Len(table) |-> Round2(table[i].Total_Value)])

\* total_cost = (cost_basis * shares).sum() over the session portfolio
total_cost(rows) == SumSkipNa([i \in 1..Len(rows) |-> CostOf(rows[i])])

total_gain_loss_percent(gain, cost) ==
    IF FPos(cost) THEN FMul(FDiv(gain, cost), Hundred) ELSE Zero

\* one run of My_portfolio.py down to st.table(display_df)
Display(rows, quote) ==
    LET table == sort_values([i \in 1..Len(rows) |-> DisplayRow(rows, quote, rows[i])])
        tv == total_value(table)
        tc == total_cost(rows)
    IN  [page |-> "Main", status |-> "done", error |-> "", table |-> table,
         total_portfolio_value |-> total_portfolio_value(rows, quote),
         total_value |-> tv, total_cost |-> tc,
         total_gain_loss |-> FSub(tv, tc),
         total_gain_loss_percent |-> total_gain_loss_percent(FSub(tv, tc), tc),
         messages |-> <<>>]

\* the provider is asked about the tickers held, once per run
TickersOf(rows) == {rows[i].ticker : i \in 1..Len(rows)}
Quotes(P, rows) == [TickersOf(rows) -> P.prices]

\* if 'portfolio' not in st.session_state: load it
Session(pf, rows) == IF pf.set THEN pf ELSE load_portfolio(rows)

(***************************************************************************)
(* Script runs of the main page.                                           *)
(***************************************************************************)
Init ==
    /\ columns \in {{}, AllColumns}
    /\ stocks = <<>>
    /\ nextId = 1
    /\ portfolio = Unset
    /\ view = [page |-> "None", status |-> "done", error |-> ""]

\* the page is opened or refreshed, no form is submitted
MainView(P) ==
    \E quote \in Quotes(P, Session(portfolio, stocks).rows) :
        LET pf == Session(portfolio, stocks)
        IN  /\ columns' = init_db(columns)
            /\ portfolio' = pf
            /\ view' = Display(pf.rows, quote)
            /\ UNCHANGED <<stocks, nextId>>

\* "Add Stock" is submitted: the table is rendered, then the form handler
\* saves the stock and reloads the session portfolio
MainAdd(P) ==
    \E ticker \in Tickers, account \in P.accounts,
       shares \in P.addShares, cost_basis \in P.addCost,
       quote \in Quotes(P, Session(portfolio, stocks).rows) :
        LET cols == init_db(columns)
            pf == Session(portfolio, stocks)
            shown == Display(pf.rows, quote)
            r == save_stock(cols, stocks, nextId, ticker, account, shares, cost_basis)
        IN  /\ nextId <= P.ids
            /\ columns' = cols
            /\ stocks' = r.stocks
            /\ nextId' = r.nextId
            /\ portfolio' = IF r.raised THEN pf ELSE load_portfolio(r.stocks)
            /\ view' = IF r.raised
                       THEN [shown EXCEPT !.status = "raised",
                                          !.error = "OperationalError"]
                       ELSE [shown EXCEPT !.messages =
                                <<[kind |-> "Added", ticker |-> ticker]>>]

\* "Update" is pressed on row i of the edit form: update_stock, reload,
\* st.rerun(), and the rerun renders the page again
MainUpdateRow(P, i, account, shares, cost_basis) ==
    LET cols == init_db(columns)
        pf == Session(portfolio, stocks)
        r == update_stock(cols, stocks, pf.rows[i].id, account, shares, cost_basis)
    IN  /\ i \in 1..Len(pf.rows)
        /\ nextId' = nextId
        /\ stocks' = r.stocks
        /\ columns' = cols
        /\ portfolio' = IF r.raised THEN pf ELSE load_portfolio(r.stocks)
        /\ IF r.raised
           THEN \E quote \in Quotes(P, pf.rows) :
                   view' = [Display(pf.rows, quote) EXCEPT
                               !.status = "raised", !.error = "OperationalError"]
           ELSE \E quote \in Quotes(P, r.stocks) :
                   view' = Display(r.stocks, quote)

MainUpdate(P) ==
    \E i \in 1..P.ids, account \in P.accounts,
       shares \in P.editShares, cost_basis \in P.editCost :
        MainUpdateRow(P, i, account, shares, cost_basis)

Next == MainView(StoreInputs) \/ MainAdd(StoreInputs) \/ MainUpdate(StoreInputs)

Spec == Init /\ [][Next]_vars

NextValuation ==
    \/ MainView(ValuationInputs)
    \/ MainAdd(ValuationInputs)
    \/ MainUpdate(ValuationInputs)

SpecValuation == Init /\ [][NextValuation]_vars

(***************************************************************************)
(* pages/Dividends.py.                                                     *)
(***************************************************************************)
\* a key the provider's info dict does not hold
Missing == [k |-> "missing", n |-> 0, d |-> 1]

Info(rate, yield, payout, exdate) ==
    [raises |-> FALSE, dividendRate |-> rate, dividendYield |-> yield,
     payoutRatio |-> payout, exDividendDate |-> exdate]
\* yf.Ticker(t).info raises
InfoError == [Info(Missing, Missing, Missing, Missing) EXCEPT !.raises = TRUE]

\* what the fundamentals lookup answers for one ticker in one run
InfoOutcomes ==
    {InfoError,
     Info(Missing, Missing, Missing, Missing),
     Info(NoneV, Q(2, 100), Q(1, 2), NoneV),
     Info(Zero, Missing, NoneV, Missing),
     Info(Q(2, 1), Q(2, 100), Q(1, 2), Q(1, 1)),
     Info(Q(1004, 1000), Q(456, 100000), Q(1, 2), Q(1, 1)),
     Info(Q(1004, 1000), NoneV, Missing, NoneV)}

\* Python truth of info.get(key): None, a missing key and 0 are false
Truthy(x) == IsFin(x) /\ x.n # 0

\* info.get(key) * 100 if info.get(key) else 0
Percent(x) == IF Truthy(x) THEN FMul(x, Hundred) ELSE Zero

\* get_dividend_info: None unless the info holds a non-null dividendRate
get_dividend_info(info, ticker, shares) ==
    IF info.dividendRate # Missing /\ info.dividendRate # NoneV
    THEN [some |-> TRUE, ticker |-> ticker, shares |-> shares,
          dividend_rate |-> info.dividendRate,
          dividend_yield |-> Percent(info.dividendYield),
          payout_ratio |-> Percent(info.payoutRatio),
          ex_dividend_date |-> IF Truthy(info.exDividendDate)
                               THEN info.exDividendDate ELSE NoneV,
          yearly_dividend_total |-> FMul(shares, info.dividendRate)]
    ELSE [some |-> FALSE]

\* the rows of the dividend table: one per position whose div_info is not None
dividend_data(rows, infos) ==
    LET recs == [i \in 1..Len(rows) |->
                    get_dividend_info(infos[rows[i].ticker], rows[i].ticker,
                                      rows[i].shares)]
    IN  SelectSeq(recs, LAMBDA r : r.some)

\* the table as displayed: every numeric column through f"{x:.2f}"
FormatRow(r) ==
    [Ticker |-> r.ticker, Shares |-> Round2(r.shares),
     Dividend |-> Round2(r.dividend_rate), Yield |-> Round2(r.dividend_yield),
     Payout |-> Round2(r.payout_ratio), ExDate |-> r.ex_dividend_date,
     Total |-> Round2(r.yearly_dividend_total)]

\* df['Total'].apply(float).sum()
total_yearly_dividends(df) == SumSkipNa([i \in 1..Len(df) |-> df[i].Total])

\* df['Yield'].apply(float).mean()
average_yield(df) == Mean([i \in 1..Len(df) |-> df[i].Yield])

\* one run of pages/Dividends.py; the page reads the store itself
Dividends(cols, rows, infos) ==
    IF cols = {}
    THEN [page |-> "Dividends", status |-> "raised", error |-> "DatabaseError",
          positions |-> rows, infos |-> infos]
    ELSE IF \E i \in 1..Len(rows) : infos[rows[i].ticker].raises
    THEN [page |-> "Dividends", status |-> "raised", error |-> "provider",
          positions |-> rows, infos |-> infos]
    ELSE LET df == Map(dividend_data(rows, infos), FormatRow)
         IN  IF df = <<>>
             THEN \* "No dividend-paying stocks found in your portfolio."
                  [page |-> "Dividends", status |-> "done", error |-> "",
                   positions |-> rows,
                   infos |-> infos, table |-> df,
                   total_yearly_dividends |-> NoneV, average_yield |-> NoneV]
             ELSE [page |-> "Dividends", status |-> "done", error |-> "",
                   positions |-> rows,
                   infos |-> infos, table |-> df,
                   total_yearly_dividends |-> total_yearly_dividends(df),
                   average_yield |-> average_yield(df)]

DividendsRun ==
    \E infos \in [TickersOf(stocks) -> InfoOutcomes] :
        /\ view' = Dividends(columns, stocks, infos)
        /\ UNCHANGED <<columns, stocks, nextId, portfolio>>

\* the main page with few inputs, to build the holdings the other pages read
DividendInputs ==
    [ids |-> MaxDividendId,
     prices |-> {Q(3, 1)},
     accounts |-> {"Webull"},
     addShares |-> {Q(1, 1), Q(10, 1)}, addCost |-> {Q(1, 1)},
     editShares |-> {Q(0, 1)},
     editCost |-> {Q(1, 1)}]

NextDividends ==
    \/ MainAdd(DividendInputs)
    \/ MainUpdate(DividendInputs)
    \/ DividendsRun

SpecDividends == Init /\ [][NextDividends]_vars

(***************************************************************************)
(* Price histories and the risk computation shared by pages/Risk.py and    *)
(* pages/2_Portfolio_Analysis.py.                                          *)
(***************************************************************************)
One == Q(1, 1)

\* closing prices over the first n dates of the window
Flat(n) == [i \in 1..n |-> Q(2, 1)]
Rising(n) == [i \in 1..n |-> Q(i, 1)]
\* listed after the first date of the window: no price on date 1
LateStart(n) == [i \in 1..n |-> IF i = 1 /\ n > 1 THEN NaN ELSE Q(i, 1)]

History(close) == [raises |-> FALSE, close |-> close]
\* ticker.history(start, end) raises
HistoryError == [raises |-> TRUE, close |-> <<>>]

\* what the price-history lookup answers for one ticker in one run
HistoryOutcomes(n) ==
    {HistoryError, History(Flat(n)), History(Rising(n)), History(LateStart(n))}

\* weights_list = ((Total Value / total) * 100).tolist()
weights_list(rows, quote) ==
    [i \in 1..Len(rows) |->
        Portfolio_Pct(Total_Value(quote, rows[i]), total_portfolio_value(rows, quote))]

\* stock_list = risk_df['ticker'].tolist()
stock_list(rows) == [i \in 1..Len(rows) |-> rows[i].ticker]

\* keys of the dict data, in insertion order: a ticker held twice is one key
RECURSIVE DictKeys(_)
DictKeys(list) ==
    IF list = <<>> THEN <<>>
    ELSE LET front == DictKeys(SubSeq(list, 1, Len(list) - 1))
             last == list[Len(list)]
         IN  IF \E i \in 1..Len(front) : front[i] = last
             THEN front ELSE Append(front, last)

\* DataFrame.bfill(): a missing cell takes the next later price
RECURSIVE bfill(_)
bfill(col) ==
    IF col = <<>> THEN <<>>
    ELSE LET rest == bfill(Tail(col))
         IN  IF IsNaN(Head(col)) /\ rest # <<>>
             THEN <<Head(rest)>> \o rest
             ELSE <<Head(col)>> \o rest

\* df_prices: one bfilled column per key of data
df_prices(keys, hist) == [c \in 1..Len(keys) |-> bfill(hist[keys[c]].close)]

\* Series.pct_change(): x[t] / x[t-1] - 1, the first cell undefined
pct_change(col) ==
    [t \in 1..Len(col) |->
        IF t = 1 THEN NaN ELSE FSub(FDiv(col[t], col[t - 1]), One)]

\* the dates on which both columns hold a return
Paired(x, y) == {t \in 1..Len(x) : ~IsNaN(x[t]) /\ ~IsNaN(y[t])}

RECURSIVE SumOver(_, _)
SumOver(f, S) ==
    IF S = {} THEN Zero
    ELSE LET t == CHOOSE u \in S : TRUE
         IN  FAdd(f[t], SumOver(f, S \ {t}))

\* sample covariance (N - 1 denominator) over the paired dates
cov(x, y) ==
    LET S == Paired(x, y)
        n == Cardinality(S)
    IN  IF n < 2 THEN NaN
        ELSE LET mx == FDiv(SumOver(x, S), Q(n, 1))
                 my == FDiv(SumOver(y, S), Q(n, 1))
                 prod == [t \in 1..Len(x) |->
                            IF t \in S THEN FMul(FSub(x[t], mx), FSub(y[t], my))
                            ELSE Zero]
             IN  FDiv(SumOver(prod, S), Q(n - 1, 1))

\* vcv_matrix = returns_df.cov()
vcv_matrix(returns) ==
    [a \in 1..Len(returns) |-> [b \in 1..Len(returns) |-> cov(returns[a], returns[b])]]

\* np.dot of two vectors: NaN and infinities propagate
RECURSIVE VecDot(_, _)
VecDot(u, v) ==
    IF u = <<>> THEN Zero
    ELSE FAdd(FMul(Head(u), Head(v)), VecDot(Tail(u), Tail(v)))

\* np.dot(w, np.dot(vcv, w)); a ValueError when the shapes do not match
ShapesMatch(vcv, w) == Len(vcv) = Len(w)
var_p(vcv, w) == VecDot(w, [a \in 1..Len(vcv) |-> VecDot(vcv[a], w)])

\* the run down to var_p: lines 48-79 of Risk.py
RiskPass(page, rows, quote, hist) ==
    LET w == weights_list(rows, quote)
        keys == DictKeys(stock_list(rows))
        prices == df_prices(keys, hist)
        returns == [c \in 1..Len(keys) |-> pct_change(prices[c])]
        vcv == vcv_matrix(returns)
        base == [page |-> page, status |-> "raised", error |-> "",
                 positions |-> rows, hist |-> hist,
                 total_portfolio_value |-> total_portfolio_value(rows, quote),
                 weights_list |-> w, columns |-> <<>>, df_prices |-> <<>>,
                 returns_df |-> <<>>, vcv_matrix |-> <<>>, var_p |-> NoneV]
    IN  IF \E i \in 1..Len(rows) : hist[rows[i].ticker].raises
        THEN [base EXCEPT !.error = "provider"]
        ELSE IF rows = <<>>
        THEN \* df_prices.index.tz_localize on an index without dates
             [base EXCEPT !.error = "AttributeError"]
        ELSE IF ~ShapesMatch(vcv, w)
        THEN [base EXCEPT !.error = "ValueError", !.columns = keys,
                          !.df_prices = prices, !.returns_df = returns]
        ELSE [base EXCEPT !.status = "done", !.columns = keys,
                          !.df_prices = prices, !.returns_df = returns,
                          !.vcv_matrix = vcv, !.var_p = var_p(vcv, w)]

\* the page could not read table stocks
NoTable(page) == [page |-> page, status |-> "raised", error |-> "DatabaseError"]

\* one run of pages/Risk.py
RiskRun(P) ==
    LET pf == IF columns = {} THEN portfolio ELSE Session(portfolio, stocks)
    IN  \E quote \in Quotes(P, pf.rows), n \in 1..NDates :
            \E hist \in [TickersOf(pf.rows) -> HistoryOutcomes(n)] :
                /\ portfolio' = pf
                /\ view' = IF columns = {} THEN NoTable("Risk")
                           ELSE RiskPass("Risk", pf.rows, quote, hist)
                /\ UNCHANGED <<columns, stocks, nextId>>

RiskInputs ==
    [ids |-> MaxId,
     prices |-> {ProviderError, Q(3, 1)},
     accounts |-> {"Webull"},
     addShares |-> {Q(1, 1), Q(2, 1)}, addCost |-> {Q(1, 1)},
     editShares |-> {Q(0, 1)},
     editCost |-> {Q(1, 1)}]

NextRisk ==
    \/ MainAdd(RiskInputs)
    \/ MainUpdate(RiskInputs)
    \/ RiskRun(RiskInputs)

SpecRisk == Init /\ [][NextRisk]_vars

(***************************************************************************)
(* pages/2_Portfolio_Analysis.py.                                          *)
(***************************************************************************)
\* Series.std() squared: the sample variance, NaN below two values
Variance(col) == cov(col, col)

\* mean / std * sqrt(250), kept exact as the sign and the square of the
\* ratio; a zero or undefined std gives what IEEE division gives
Ratio(mean, var) ==
    CASE IsNaN(mean) \/ ~IsFin(var) -> [k |-> "nan", sgn |-> 0, sq |-> NaN]
      [] var.n = 0 /\ Sign(mean) = 0 -> [k |-> "nan", sgn |-> 0, sq |-> NaN]
      [] var.n = 0 -> [k |-> IF Sign(mean) > 0 THEN "inf" ELSE "ninf",
                       sgn |-> Sign(mean), sq |-> PosInf]
      [] IsInf(mean) -> [k |-> mean.k, sgn |-> Sign(mean), sq |-> PosInf]
      [] OTHER -> [k |-> "fin", sgn |-> Sign(mean),
                   sq |-> FDiv(FMul(FMul(mean, mean), Q(250, 1)), var)]

\* shares_df.loc[ticker, "shares"] for a ticker held once
SharesOf(rows, ticker) ==
    LET i == CHOOSE j \in 1..Len(rows) : rows[j].ticker = ticker
    IN  rows[i].shares

\* prices_df[ticker] = prices_df[ticker] * shares
value_columns(rows, keys, prices) ==
    [c \in 1..Len(keys) |->
        [t \in 1..Len(prices[c]) |-> FMul(prices[c][t], SharesOf(rows, keys[c]))]]

\* prices_df['Total Value'] = prices_df.iloc[:, 1:].sum(axis=1)
Portfolio_Value(values, n) ==
    [t \in 1..n |-> SumSkipNa([c \in 1..(Len(values) - 1) |-> values[c + 1][t]])]

\* a series that drops its undefined elements instead of filling them
dropna(col) == NotNa(col)

\* Series.fillna(0)
fillna0(col) == [t \in 1..Len(col) |-> IF IsNaN(col[t]) THEN Zero ELSE col[t]]

\* prices_df["return"] = Total Value .pct_change().fillna(0) * 100
portfolio_return(total) ==
    LET r == fillna0(pct_change(total))
    IN  [t \in 1..Len(r) |-> FMul(r[t], Hundred)]

\* (last - first) / first * 100
cum_return(total) ==
    FMul(FDiv(FSub(total[Len(total)], total[1]), total[1]), Hundred)

\* one run of pages/2_Portfolio_Analysis.py
AnalysisPass(rows, quote, hist, n) ==
    LET risk == RiskPass("Analysis", rows, quote, hist)
    IN  IF risk.status # "done" THEN risk
        ELSE LET values == value_columns(rows, risk.columns, risk.df_prices)
                 total == Portfolio_Value(values, n)
                 ret == portfolio_return(total)
             IN  [page |-> "Analysis", status |-> "done", error |-> "",
                  positions |-> rows, hist |-> hist,
                  total_portfolio_value |-> risk.total_portfolio_value,
                  weights_list |-> risk.weights_list,
                  columns |-> risk.columns, df_prices |-> risk.df_prices,
                  returns_df |-> risk.returns_df,
                  vcv_matrix |-> risk.vcv_matrix, var_p |-> risk.var_p,
                  sharp_individual |->
                      [c \in 1..Len(risk.columns) |->
                          Ratio(Mean(risk.returns_df[c]), Variance(risk.returns_df[c]))],
                  Total_Value |-> total,
                  return |-> ret,
                  sharpe_ratio |-> Ratio(Mean(ret), Variance(ret)),
                  cum_return |-> cum_return(total)]

AnalysisRun(P) ==
    LET pf == IF columns = {} THEN portfolio ELSE Session(portfolio, stocks)
    IN  \E quote \in Quotes(P, pf.rows), n \in 1..NDates :
            \E hist \in [TickersOf(pf.rows) -> HistoryOutcomes(n)] :
                /\ portfolio' = pf
                /\ view' = IF columns = {} THEN NoTable("Analysis")
                           ELSE AnalysisPass(pf.rows, quote, hist, n)
                /\ UNCHANGED <<columns, stocks, nextId>>

NextAnalysis ==
    \/ MainAdd(RiskInputs)
    \/ MainUpdate(RiskInputs)
    \/ AnalysisRun(RiskInputs)

SpecAnalysis == Init /\ [][NextAnalysis]_vars

\* the analysis page with every latest-price lookup answered
ReturnInputs ==
    [ids |-> MaxId,
     prices |-> {Q(3, 1)},
     accounts |-> {"Webull"},
     addShares |-> {Q(2, 1)}, addCost |-> {Q(1, 1)},
     editShares |-> {Q(0, 1)},
     editCost |-> {Q(1, 1)}]

NextReturns ==
    \/ MainAdd(ReturnInputs)
    \/ MainUpdate(ReturnInputs)
    \/ AnalysisRun(ReturnInputs)

SpecReturns == Init /\ [][NextReturns]_vars

(***************************************************************************)
(* Properties of the holdings store.                                       *)
(***************************************************************************)
IdsOf(rows) == {rows[j].id : j \in 1..Len(rows)}

\* C4: update_position(id, account, shares, cost_basis) with shares <= 0
\* removes exactly the position with that id; with shares > 0 it sets the
\* account, shares and cost_basis of that position and keeps its id and
\* ticker; every other stored position stays as it was.
UpdateEffect(id, account, shares, cost_basis) ==
    IF FPos(shares)
    THEN /\ Len(stocks') = Len(stocks)
         /\ \A j \in 1..Len(stocks) :
               IF stocks[j].id = id
               THEN /\ stocks'[j].id = id
                    /\ stocks'[j].ticker = stocks[j].ticker
                    /\ stocks'[j].account = account
                    /\ stocks'[j].shares = shares
                    /\ stocks'[j].cost_basis = cost_basis
               ELSE stocks'[j] = stocks[j]
    ELSE /\ id \notin IdsOf(stocks')
         /\ stocks' = SelectSeq(stocks, LAMBDA r : r.id # id)
         /\ Len(stocks') = Len(stocks) - Cardinality({j \in 1..Len(stocks) : stocks[j].id = id})

C4_UpdatePosition ==
    [][\A i \in 1..StoreInputs.ids, account \in StoreInputs.accounts,
          shares \in StoreInputs.editShares, cost_basis \in StoreInputs.editCost :
            MainUpdateRow(StoreInputs, i, account, shares, cost_basis)
                => UpdateEffect(Session(portfolio, stocks).rows[i].id,
                                account, shares, cost_basis)]_vars

\* an edited position (cost basis 0 is only reachable through the edit
\* form) stored next to a position the edit left alone
C4_Witness ==
    /\ Len(stocks) = 2
    /\ stocks[1].cost_basis = Zero
    /\ stocks[1].account = "HSA"
    /\ stocks[2].cost_basis = Q(1, 1)

\* C10: every stored position has shares > 0 and cost_basis > 0.
C10_PositivePositions ==
    \A j \in 1..Len(stocks) : FPos(stocks[j].shares) /\ FPos(stocks[j].cost_basis)

(***************************************************************************)
(* Properties of the valuation.                                            *)
(***************************************************************************)
\* sum of shares * price over the table rows with a defined price
RECURSIVE DefinedValue(_)
DefinedValue(table) ==
    IF table = <<>> THEN Zero
    ELSE IF IsNaN(Head(table).Current_Price) THEN DefinedValue(Tail(table))
    ELSE FAdd(FMul(Head(table).shares, Head(table).Current_Price),
              DefinedValue(Tail(table)))

\* C3: a position whose price is missing has an undefined market value and
\* is left out of the portfolio total; the total is the sum of shares x price
\* over the positions with a price, and each of those has a defined weight
\* value / total x 100.
C3_MissingPriceExcluded ==
    view.page = "Main" =>
        /\ view.total_portfolio_value = DefinedValue(view.table)
        /\ \A j \in 1..Len(view.table) :
              LET row == view.table[j]
              IN  IF IsNaN(row.Current_Price)
                  THEN IsNaN(row.Total_Value)
                  ELSE /\ row.Total_Value = FMul(row.shares, row.Current_Price)
                       /\ IsFin(row.Portfolio_Pct)
                       /\ FMul(row.Portfolio_Pct, view.total_portfolio_value)
                            = FMul(row.Total_Value, Hundred)

\* one position without a price beside one with a price
C3_Witness ==
    /\ view.page = "Main"
    /\ Len(view.table) = 2
    /\ IsFin(view.table[1].Current_Price)
    /\ IsNaN(view.table[2].Current_Price)
    /\ view.total_portfolio_value = view.table[1].Total_Value

\* C7: for a position with a defined market value, Gain/Loss is
\* value - cost_basis x shares and Gain/Loss % is Gain/Loss over
\* cost_basis x shares, x 100; with cost_basis x shares zero the percentage
\* is undefined: neither a number nor an infinity.
C7_GainLoss ==
    view.page = "Main" =>
        \A j \in 1..Len(view.table) :
            LET row == view.table[j]
                cost == FMul(row.cost_basis, row.shares)
            IN  IsFin(row.Total_Value) =>
                  /\ row.Gain_Loss = FSub(row.Total_Value, cost)
                  /\ IF cost = Zero
                     THEN ~IsFin(row.Gain_Loss_Pct) /\ ~IsInf(row.Gain_Loss_Pct)
                     ELSE row.Gain_Loss_Pct
                            = FMul(FDiv(row.Gain_Loss, cost), Hundred)

(***************************************************************************)
(* Properties of the dividend page.                                        *)
(***************************************************************************)
HasRate(info) == info.dividendRate # Missing /\ info.dividendRate # NoneV

\* the positions whose ticker has a non-null dividend rate
Payers(rows, infos) == SelectSeq(rows, LAMBDA r : HasRate(infos[r.ticker]))

DividendsShown == view.page = "Dividends" /\ view.status = "done"

\* C5: a position is in the dividend table iff its ticker has a non-null
\* dividend rate, and the average yield shown is the unweighted mean of
\* dividend_yield_pct over those positions only.
C5_AverageYield ==
    DividendsShown =>
        LET inc == Payers(view.positions, view.infos)
        IN  /\ Len(view.table) = Len(inc)
            /\ \A i \in 1..Len(inc) : view.table[i].Ticker = inc[i].ticker
            /\ inc # <<>> =>
                 Round2(view.average_yield)
                   = Round2(Mean([i \in 1..Len(inc) |->
                                    Percent(view.infos[inc[i].ticker].dividendYield)]))

\* C6: the total yearly dividend income shown is the sum of
\* shares x dividend_rate over the positions in the dividend table.
C6_TotalYearlyDividends ==
    DividendsShown =>
        LET inc == Payers(view.positions, view.infos)
        IN  inc # <<>> =>
              Round2(view.total_yearly_dividends)
                = Round2(SumSkipNa([i \in 1..Len(inc) |->
                                      FMul(inc[i].shares,
                                           view.infos[inc[i].ticker].dividendRate)]))

(***************************************************************************)
(* Properties of the risk page.                                            *)
(***************************************************************************)
\* C8: the weights are value / total x 100, and with a total of zero (no
\* position has a defined value, or there is no position) no weight that is
\* the result of the division by that zero goes into the risk computation.
C8_UndefinedWeight ==
    view.page = "Risk" /\ view.error # "DatabaseError" =>
        /\ \A i \in 1..Len(view.weights_list) :
              view.total_portfolio_value # Zero =>
                  FMul(view.weights_list[i], view.total_portfolio_value)
                    = FMul(FMul(view.positions[i].shares, Q(3, 1)), Hundred)
                  \/ IsNaN(view.weights_list[i])
        /\ view.total_portfolio_value = Zero =>
              ~(view.var_p # NoneV
                  /\ \E i \in 1..Len(view.weights_list) :
                        ~IsFin(view.weights_list[i]))

(***************************************************************************)
(* Properties of the analysis page.                                        *)
(***************************************************************************)
AnalysisShown == view.page = "Analysis" /\ view.status = "done"

\* sum over every column of the price table of price x shares held
RECURSIVE HeldValue(_, _, _, _)
HeldValue(rows, keys, prices, t) ==
    IF keys = <<>> THEN Zero
    ELSE FAdd(FMul(Head(prices)[t], SharesOf(rows, Head(keys))),
              HeldValue(rows, Tail(keys), Tail(prices), t))

\* C1: on every date of the aligned price table the portfolio value is the
\* sum over all tickers held of price x shares; no column is left out.
C1_PortfolioValue ==
    AnalysisShown =>
        \A t \in 1..Len(view.Total_Value) :
            view.Total_Value[t]
              = HeldValue(view.positions, view.columns, view.df_prices, t)

\* C2: no failure of the market-data provider aborts a pass: the pass
\* completes with the failing ticker treated as missing.
C2_ProviderFailureIsolated ==
    view.page # "None" => view.error # "provider"

\* C9: when the portfolio value is constant over the window (so the
\* standard deviation of its returns is zero or undefined) the Sharpe ratio
\* shown is not the outcome of a division by zero.
C9_SharpeUndefined ==
    AnalysisShown =>
        ((\A t \in 1..Len(view.Total_Value) :
              view.Total_Value[t] = view.Total_Value[1])
            => view.sharpe_ratio.k \notin {"nan", "inf", "ninf"})

(***************************************************************************)
(* Properties of a store created by initialisation.                        *)
(***************************************************************************)
\* the add form stored the position and the reloaded list carries it
AddEffect ==
    /\ Len(stocks') = Len(stocks) + 1
    /\ SubSeq(stocks', 1, Len(stocks)) = stocks
    /\ \E ticker \in Tickers, account \in StoreInputs.accounts,
          shares \in StoreInputs.addShares, cost_basis \in StoreInputs.addCost :
           LET row == stocks'[Len(stocks')]
           IN  /\ row.ticker = ticker
               /\ row.account = account
               /\ row.shares = shares
               /\ row.cost_basis = cost_basis
    /\ portfolio' = load_portfolio(stocks')
    /\ view'.status = "done"

\* C11: on a store that initialisation creates (no table before the first
\* run) the add form succeeds and the listed positions then carry the
\* ticker, account, shares and cost_basis that were added; the table that
\* initialisation creates has every column that add and update write.
C11_InitThenAdd ==
    [][(columns \in {{}, InitColumns} /\ MainAdd(StoreInputs))
          => (AddEffect /\ AllColumns \subseteq columns')]_vars

(***************************************************************************)
(* Properties of the return series.                                        *)
(***************************************************************************)
RECURSIVE PlainSum(_)
PlainSum(s) == IF s = <<>> THEN Zero ELSE FAdd(Head(s), PlainSum(Tail(s)))

\* mean and sample covariance in which every element of the series counts
PlainMean(s) == FDiv(PlainSum(s), Q(Len(s), 1))
PlainCov(x, y) ==
    IF Len(x) < 2 THEN NaN
    ELSE FDiv(PlainSum([t \in 1..Len(x) |->
                          FMul(FSub(x[t], PlainMean(x)), FSub(y[t], PlainMean(y)))]),
              Q(Len(x) - 1, 1))

C13_WeightsMatchColumns ==
    (view.page \in {"Risk", "Analysis"} /\ view.error \notin {"provider", "DatabaseError"})
        => /\ view.error # "ValueError"
           /\ Len(view.weights_list) = Len(view.columns)
           /\ \A i \in 1..Len(view.columns) :
                 view.positions[i].ticker = view.columns[i]

(***************************************************************************)
(* Properties of the refresh after a mutation.                             *)
(***************************************************************************)
\* the stored fields of the rows of a displayed table
StoredPart(table) ==
    {[id |-> table[j].id, ticker |-> table[j].ticker, account |-> table[j].account,
      shares |-> table[j].shares, cost_basis |-> table[j].cost_basis] :
        j \in 1..Len(table)}

\* C14: an interaction on the main page that changes the store (add,
\* update or delete) ends with the session portfolio reloaded from the
\* store and with the table and totals on the page showing the store as
\* it is after the change.
C14_RefreshAfterMutation ==
    [][stocks' # stocks =>
          /\ portfolio' = load_portfolio(stocks')
          /\ view'.page = "Main"
          /\ Len(view'.table) = Len(stocks')
          /\ StoredPart(view'.table) = {stocks'[j] : j \in 1..Len(stocks')}
          /\ view'.total_cost
               = PlainSum([j \in 1..Len(stocks') |->
                             FMul(stocks'[j].cost_basis, stocks'[j].shares)])]_vars

(***************************************************************************)
(* Properties of the totals of the main page.                              *)
(***************************************************************************)
\* the rows of the table whose value counts in the total portfolio value
Counted(table) == SelectSeq(table, LAMBDA row : ~IsNaN(row.Total_Value))

\* C15: the total gain/loss of the main page is the sum of the Gain/Loss of
\* the positions counted in the total portfolio value; a position without
\* a price adds neither its value nor its cost.  Compared as displayed, to
\* two decimals.
C15_TotalGainLoss ==
    (view.page = "Main" /\ view.status = "done") =>
        Round2(view.total_gain_loss)
          = Round2(PlainSum([j \in 1..Len(Counted(view.table)) |->
                               Counted(view.table)[j].Gain_Loss]))
====
